---- MODULE Spec2Model ----
(***************************************************************************)
(* Token-swap front end (frontend/src/App.jsx and services/api.js): the    *)
(* Swap Form Controller's React state, its event handlers and the          *)
(* asynchronous calls they start, as a state machine.                      *)
(*                                                                         *)
(* A handler runs to its first await in one step; every later step is the  *)
(* settlement of the promise the call is suspended on, followed by the     *)
(* synchronous code up to the next await.  A handler reads the state of    *)
(* the render it was created in, so an asynchronous call carries the       *)
(* values its closure captured when it was invoked.                        *)
(*                                                                         *)
(* Further down: the TradingAPI class of the integration SDK               *)
(* (backend/frontend_integration/trading-sdk.js) and the                   *)
(* TradingSignalContract (backend/contracts/README.md), each with a        *)
(* specification of its own.                                               *)
(***************************************************************************)
EXTENDS Integers, Sequences, FiniteSets, TLC

VARIABLES
    fromToken,   \* useState(tokens[0])      App.jsx:38
    toToken,     \* useState(tokens[2])      App.jsx:39
    amount,      \* useState("")             App.jsx:40
    isRoute,     \* useState(false)          App.jsx:41
    data1,       \* useState({})             App.jsx:42
    signer,      \* useState()               App.jsx:43
    address,     \* useState()               App.jsx:44
    provider,    \* useState()               App.jsx:45
    searchTerm,  \* useState("")             App.jsx:53
    ethereum,    \* window.ethereum is present (a wallet extension is installed)
    connects,    \* handleConnectWallet calls suspended on an await
    fetches,     \* getTokenBalance calls suspended on an await
    aggs,        \* handleFinishSwap calls suspended on an await
    hist,        \* observation of the last handler step (not program state)
    api,         \* a TradingAPI instance (trading-sdk.js), its requests in
                 \* flight and the outcome of the last call made on it
    contract,    \* the deployed TradingSignalContract (contracts/README.md)
                 \* and the outcome of the last transaction sent to it
    sockets,     \* the WebSocket objects created so far (trading-sdk.js:172)
    wsHook,      \* the state of one useWebSocket hook   (useTradingAPI.js:234)
    trading,     \* the state of one useTrading hook     (useTradingAPI.js:113)
    viewport     \* the window and the state of useViewport (useViewport.jsx)

\* the state of the swap page
appVars == <<fromToken, toToken, amount, isRoute, data1, signer, address,
             provider, searchTerm, ethereum, connects, fetches, aggs, hist>>

\* the state of the integration library, which the swap page never touches
libVars == <<api, contract, sockets, wsHook, trading, viewport>>

\* the sockets and the hooks, which the HTTP side of the SDK and the contract
\* never touch
hookVars == <<sockets, wsHook, trading, viewport>>

vars == <<fromToken, toToken, amount, isRoute, data1, signer, address, provider,
          searchTerm, ethereum, connects, fetches, aggs, hist, api, contract,
          sockets, wsHook, trading, viewport>>

-----------------------------------------------------------------------------
(* Bounds *)

\* longest search term typed (the input allows 10 characters)
MaxTermLen == 3
\* getTokenBalance calls in flight at the same time; handleConnectWallet starts
\* two, and is not invoked while another invocation is in flight
MaxFetches == 2
\* handleFinishSwap calls in flight at the same time
MaxAggs == 2

\* characters typed into the search box
TermChars == {"u", "s", "S", "d", "T", "x"}

-----------------------------------------------------------------------------
(* JavaScript values *)

\* the value of a state hook created with useState() and of an absent field
Undefined == "undefined"

\* String.prototype.toLowerCase on one UTF-16 unit of the ASCII range
UpperCase == <<"A","B","C","D","E","F","G","H","I","J","K","L","M",
               "N","O","P","Q","R","S","T","U","V","W","X","Y","Z">>
LowerCase == <<"a","b","c","d","e","f","g","h","i","j","k","l","m",
               "n","o","p","q","r","s","t","u","v","w","x","y","z">>

LowerCaseOf == [c \in {UpperCase[i] : i \in 1..26} |->
                   LowerCase[CHOOSE i \in 1..26 : UpperCase[i] = c]]

toLowerCaseChar(c) == IF c \in DOMAIN LowerCaseOf THEN LowerCaseOf[c] ELSE c

\* String.prototype.toLowerCase; a string is the sequence of its characters
toLowerCase(s) == [i \in 1..Len(s) |-> toLowerCaseChar(s[i])]

\* String.prototype.includes: the needle occurs at some offset of the haystack
includes(h, n) ==
    \E k \in 0..(Len(h) - Len(n)) : SubSeq(h, k + 1, k + Len(n)) = n

-----------------------------------------------------------------------------
(* The static token registry *)

NativeAddress == "0x4200000000000000000000000000000000000006"

tokens ==
    << [name |-> "ETH",
        address |-> "0x4200000000000000000000000000000000000006"],
       [name |-> "USDC",
        address |-> "0x833589fCD6eDb6E08f4c7C32D4f71b54bdA02913"],
       [name |-> "USDT",
        address |-> "0xfde4C96c8593536E31F229EA8f37b2ADa2699bb2"],
       [name |-> "LINK",
        address |-> "0x1D9328F2713E8b4EFca304093D53fcC2c068B7Cd"] >>

\* the characters of the registry names (the search term is kept as the
\* sequence of its characters)
Chars ==
    [n \in {"ETH", "USDC", "USDT", "LINK"} |->
        CASE n = "ETH"  -> <<"E","T","H">>
          [] n = "USDC" -> <<"U","S","D","C">>
          [] n = "USDT" -> <<"U","S","D","T">>
          [] n = "LINK" -> <<"L","I","N","K">>]

\* a Token as held in fromToken / toToken: a registry entry, with the balance
\* field a fetch may have spread into it
Bind(t) == [name |-> t.name, address |-> t.address, balance |-> Undefined]

\* token.name.toLowerCase() of each registry entry
lowerName ==
    [t \in {tokens[i] : i \in 1..Len(tokens)} |-> toLowerCase(Chars[t.name])]

\* tokens.filter over the lower-cased names, the term taken as typed
filteredTokensCaseSensitive ==
    SelectSeq(tokens, LAMBDA token : includes(lowerName[token], searchTerm))

\* tokens.filter(token => token.name.toLowerCase().includes(
\* searchTerm.toLowerCase())): the entries that pass, in registry order
filteredTokens ==
    LET term == toLowerCase(searchTerm)
    IN  SelectSeq(tokens, LAMBDA token : includes(lowerName[token], term))

\* the entries the dropdowns list
ListedTokens == LET listed == filteredTokens IN {listed[i] : i \in DOMAIN listed}

-----------------------------------------------------------------------------
(* The amount preset buttons *)

\* each button: its label, the value its onClick stores, and the value of
\* `amount` for which its className carries "active"
PresetButtonsMiswired ==
    << [label |-> "25%",  sets |-> "25%",  activeWhen |-> "25%"],
       [label |-> "50%",  sets |-> "50%",  activeWhen |-> "50%"],
       [label |-> "75%",  sets |-> "75%",  activeWhen |-> "50%"],
       [label |-> "100%", sets |-> "100%", activeWhen |-> "100%"] >>

PresetButtons ==
    << [label |-> "25%",  sets |-> "25%",  activeWhen |-> "25%"],
       [label |-> "50%",  sets |-> "50%",  activeWhen |-> "50%"],
       [label |-> "75%",  sets |-> "75%",  activeWhen |-> "75%"],
       [label |-> "100%", sets |-> "100%", activeWhen |-> "100%"] >>

Active(i) == amount = PresetButtons[i].activeWhen

-----------------------------------------------------------------------------
(* Initial state: the first render *)

NoHist == [op |-> "none"]

\* a step no observation is kept of
Other == [op |-> "other"]

InitApp ==
    /\ fromToken = Bind(tokens[1])
    /\ toToken = Bind(tokens[3])
    /\ amount = ""
    /\ isRoute = FALSE
    /\ data1 = [t |-> "object", keys |-> {}]   \* {}
    /\ signer = Undefined
    /\ address = Undefined
    /\ provider = Undefined
    /\ searchTerm = <<>>
    /\ ethereum \in BOOLEAN
    /\ connects = <<>>
    /\ fetches = <<>>
    /\ aggs = <<>>
    /\ hist = NoHist

\* new TradingAPI(apiKey): the instance after construction
\* null where a socket is expected; sockets are numbered from 1 as created
Null == 0

TradingAPI(apiKey) ==
    [apiKey |-> apiKey, baseURL |-> "http://localhost:8000",
     wsConnection |-> Null, wsCallbacks |-> {},
     inFlight |-> <<>>, last |-> NoHist]

\* amounts of the contract, in units of 0.001 ether
MaxTradeAmount == 1000000   \* 1000 ether
MinTradeAmount == 1         \* 0.001 ether

\* the accounts that send transactions; the first deploys the contract
Deployer == "0xDeployer"
Accounts == {Deployer, "0xAlice", "0xBob"}
ZeroAddress == "0x0000000000000000000000000000000000000000"

\* constructor(): the contract as deployed by msg.sender
TradingSignalContract(sender) ==
    [owner |-> sender, authorizedCallers |-> {sender},
     maxTradeAmount |-> MaxTradeAmount, minTradeAmount |-> MinTradeAmount,
     last |-> [fn |-> "constructor", sender |-> sender, quantity |-> 0,
               reverted |-> FALSE, events |-> <<>>]]

\* const [connected, setConnected] = useState(false) ... useRef(null); the
\* TradingAPI instances the hook created are kept in `apis`
useWebSocket(apiKey) ==
    [apiKey |-> apiKey, connected |-> FALSE, error |-> "null",
     apiRef |-> Null, apis |-> <<>>, last |-> NoHist]

\* const [loading, setLoading] = useState(false) ...; `pending` are the
\* operations suspended on their await
useTrading(apiKey) ==
    [apiKey |-> apiKey, loading |-> FALSE, error |-> "null",
     pending |-> <<>>, last |-> NoHist]

breakpoints == [mobile |-> 0, tablet |-> 768, desktop |-> 1250]

\* widest window
MaxWidth == 1300
Widths == 0..MaxWidth

\* a browser window of some width, or no window (server-side rendering)
Window(innerWidth) == [defined |-> TRUE, innerWidth |-> innerWidth]
NoWindow == [defined |-> FALSE, innerWidth |-> 0]

getViewport(window) ==
    IF ~window.defined THEN "desktop"
    ELSE IF window.innerWidth < breakpoints.tablet THEN "mobile"
    ELSE IF window.innerWidth < breakpoints.desktop THEN "tablet"
    ELSE IF window.innerWidth > breakpoints.desktop THEN "desktop"
    ELSE Undefined

\* useState(getViewport())
useViewport(window) == [window |-> window, viewport |-> getViewport(window)]

InitHooks ==
    /\ sockets = <<>>
    /\ wsHook = useWebSocket("your_api_key")
    /\ trading = useTrading("your_api_key")
    /\ viewport = useViewport(Window(MaxWidth))

Init ==
    /\ InitApp
    /\ api = TradingAPI("your_api_key")
    /\ contract = TradingSignalContract(Deployer)
    /\ InitHooks

-----------------------------------------------------------------------------
(* Form actions that start no asynchronous call *)

\* e.target.value after one keystroke in the search box: the term with a
\* character typed at its end, or with its last character deleted
Keystrokes(term) ==
    (IF Len(term) < MaxTermLen
     THEN {Append(term, c) : c \in TermChars} ELSE {})
        \cup (IF Len(term) > 0
              THEN {SubSeq(term, 1, Len(term) - 1)} ELSE {})

\* onChange of either search box
SetSearchTerm ==
    /\ \E s \in Keystrokes(searchTerm) : searchTerm' = s
    /\ hist' = [op |-> "setSearchTerm"]
    /\ UNCHANGED <<fromToken, toToken, amount, isRoute, data1, signer, address,
                   provider, ethereum, libVars, connects, fetches, aggs>>

\* the presets clicked in a row, the latest last (at most two are kept)
PresetRun(i) ==
    IF hist.op = "setAmount" THEN <<hist.run[Len(hist.run)], i>> ELSE <<i>>

\* onClick of the i-th preset button
SetAmount ==
    /\ \E i \in 1..Len(PresetButtons) :
          /\ amount' = PresetButtons[i].sets
          /\ hist' = [op |-> "setAmount", run |-> PresetRun(i)]
    /\ UNCHANGED <<fromToken, toToken, isRoute, data1, signer, address,
                   provider, searchTerm, ethereum, libVars, connects, fetches, aggs>>

NextForm == SetSearchTerm \/ SetAmount

SpecForm == Init /\ [][NextForm]_vars

-----------------------------------------------------------------------------
(* ethers: formatUnits / formatEther *)

RECURSIVE Digits(_)
\* the decimal digits of a non-negative integer, most significant first
Digits(n) == IF n < 10 THEN <<n>> ELSE Digits(n \div 10) \o <<n % 10>>

RECURSIVE DigitString(_)
DigitString(ds) ==
    IF ds = <<>> THEN "" ELSE ToString(Head(ds)) \o DigitString(Tail(ds))

RECURSIVE StripTrailingZeros(_)
\* a fraction keeps at least one digit
StripTrailingZeros(ds) ==
    IF Len(ds) > 1 /\ ds[Len(ds)] = 0
    THEN StripTrailingZeros(SubSeq(ds, 1, Len(ds) - 1))
    ELSE ds

\* formatUnits(value, decimals): the value with the point `decimals` digits
\* from the right, zero-padded on the left, trailing zeros dropped
formatUnits(raw, decimals) ==
    IF decimals = 0 THEN DigitString(Digits(raw))
    ELSE LET ds == Digits(raw)
             padded == IF Len(ds) <= decimals
                       THEN [i \in 1..(decimals + 1 - Len(ds)) |-> 0] \o ds
                       ELSE ds
             cut == Len(padded) - decimals
         IN  DigitString(SubSeq(padded, 1, cut)) \o "."
                \o DigitString(StripTrailingZeros(SubSeq(padded, cut + 1, Len(padded))))

EtherDecimals == 18

formatEther(raw) == formatUnits(raw, EtherDecimals)

-----------------------------------------------------------------------------
(* What the wallet and the chain may answer *)

\* the chain during the page view: what getBalance / balanceOf return for the
\* user's account, and what decimals() of each token contract returns
Holdings ==
    [a \in {tokens[i].address : i \in 1..Len(tokens)} |->
        CASE a = tokens[1].address -> 1500000
          [] a = tokens[2].address -> 0
          [] a = tokens[3].address -> 1500000
          [] OTHER -> 0]

ContractDecimals ==
    [a \in {tokens[i].address : i \in 2..Len(tokens)} |->
        IF a = tokens[4].address THEN 18 ELSE 6]
\* the account the wallet exposes
UserAddress == "0xUser"

\* ethers.getAddress accepts an address whose EIP-55 checksum is right; every
\* address of the registry is one
ValidAddress(a) == \E i \in 1..Len(tokens) : tokens[i].address = a

Erc20Reads == {"balanceOf", "decimals", "symbol"}

-----------------------------------------------------------------------------
(* Token selection and direction *)

RemoveAt(seq, i) == SubSeq(seq, 1, i - 1) \o SubSeq(seq, i + 1, Len(seq))

\* onClick of an entry of the source dropdown: setFromToken(token)
\* what hist records of a click on a dropdown entry: the role, the entry and
\* the state the click is to leave alone, as it was before the click
Selected(role, token, other) ==
    [op |-> "selectToken", role |-> role, token |-> token,
     frame |-> <<other, amount, data1, isRoute, signer, address, provider>>]

\* an entry that is the other role's token is ignored
SelectFromDistinctOnly ==
    /\ \E token \in ListedTokens :
          /\ fromToken' = IF token.name = toToken.name THEN fromToken
                          ELSE Bind(token)
          /\ hist' = Selected("from", token, toToken)
    /\ UNCHANGED <<toToken, amount, isRoute, data1, signer, address, provider,
                   searchTerm, ethereum, libVars, connects, fetches, aggs>>

SelectFrom ==
    /\ \E token \in ListedTokens :
          /\ fromToken' = Bind(token)
          /\ hist' = Selected("from", token, toToken)
    /\ UNCHANGED <<toToken, amount, isRoute, data1, signer, address, provider,
                   searchTerm, ethereum, libVars, connects, fetches, aggs>>

\* onClick of an entry of the destination dropdown: setToToken(token)
SelectTo ==
    /\ \E token \in ListedTokens :
          /\ toToken' = Bind(token)
          /\ hist' = Selected("to", token, fromToken)
    /\ UNCHANGED <<fromToken, amount, isRoute, data1, signer, address, provider,
                   searchTerm, ethereum, libVars, connects, fetches, aggs>>

\* handleSwap with the second setter reading the already replaced source
handleSwapSequential ==
    /\ fromToken' = toToken
    /\ toToken' = fromToken'
    /\ hist' = IF hist.op = "handleSwap" /\ hist.n = 1
               THEN [hist EXCEPT !.n = 2]
               ELSE [op |-> "handleSwap", n |-> 1, from |-> fromToken, to |-> toToken]
    /\ UNCHANGED <<amount, isRoute, data1, signer, address, provider,
                   searchTerm, ethereum, libVars, connects, fetches, aggs>>

\* handleSwap rebinding the registry entries of the two names
handleSwapRebind ==
    /\ fromToken' = [toToken EXCEPT !.balance = Undefined]
    /\ toToken' = [fromToken EXCEPT !.balance = Undefined]
    /\ hist' = IF hist.op = "handleSwap" /\ hist.n = 1
               THEN [hist EXCEPT !.n = 2]
               ELSE [op |-> "handleSwap", n |-> 1, from |-> fromToken, to |-> toToken]
    /\ UNCHANGED <<amount, isRoute, data1, signer, address, provider,
                   searchTerm, ethereum, libVars, connects, fetches, aggs>>

\* handleSwap; hist keeps the bindings before a run of one or two inversions
handleSwap ==
    /\ fromToken' = toToken
    /\ toToken' = fromToken
    /\ hist' = IF hist.op = "handleSwap" /\ hist.n = 1
               THEN [hist EXCEPT !.n = 2]
               ELSE [op |-> "handleSwap", n |-> 1, from |-> fromToken, to |-> toToken]
    /\ UNCHANGED <<amount, isRoute, data1, signer, address, provider,
                   searchTerm, ethereum, libVars, connects, fetches, aggs>>

\* the balance annotation of a role: {token.balance ? token.balance : "--"}
BalanceText(token) ==
    IF token.balance # Undefined /\ token.balance # "" THEN token.balance
    ELSE "--"

-----------------------------------------------------------------------------
(* Wallet connection *)

\* only the source fetch is started
StartFetchSourceOnly(tokenAddress, fromOrTo, captured) ==
    IF ~ethereum \/ fromOrTo = "to" THEN <<>>
    ELSE << [role |-> fromOrTo, tokenAddress |-> tokenAddress,
             captured |-> captured] >>

\* getTokenBalance(tokenAddress, fromOrTo) up to its first await: the call of
\* the closure that holds `captured` as the role's Token
StartFetch(tokenAddress, fromOrTo, captured) ==
    IF ~ethereum THEN <<>>
    ELSE << [role |-> fromOrTo, tokenAddress |-> tokenAddress,
             captured |-> captured] >>

\* handleConnectWallet that goes on without a wallet extension
handleConnectWalletUnguarded ==
    /\ Len(connects) = 0 /\ Len(fetches) + 2 <= MaxFetches
    /\ connects' = Append(connects,
                      [from |-> fromToken, to |-> toToken])
    /\ hist' = Other
    /\ UNCHANGED <<fromToken, toToken, amount, isRoute, data1, signer, address,
                   provider, searchTerm, ethereum, libVars, fetches, aggs>>

\* handleConnectWallet up to its first await
handleConnectWallet ==
    IF ~ethereum
    THEN /\ hist' = [op |-> "connectWallet", alert |-> TRUE]
         /\ UNCHANGED <<fromToken, toToken, amount, isRoute, data1, signer,
                        address, provider, searchTerm, ethereum, libVars, connects,
                        fetches, aggs>>
    ELSE /\ Len(connects) = 0 /\ Len(fetches) + 2 <= MaxFetches
         /\ connects' = Append(connects,
                           [from |-> fromToken, to |-> toToken])
         /\ hist' = Other
         /\ UNCHANGED <<fromToken, toToken, amount, isRoute, data1, signer,
                        address, provider, searchTerm, ethereum, libVars, fetches, aggs>>

\* An await that resolves moves only its handler on, to the next await; no
\* other handler can tell.  So a handler's step below runs from one
\* settlement up to the point where the handler writes state or returns.

\* what hist records of a handleConnectWallet call whose await rejected:
\* the session as it was when the rejection arrived
ConnectFailed(step) ==
    [op |-> "connectFailed", step |-> step,
     session |-> <<signer, address, provider>>]

\* provider.getSigner() rejects: the catch logs and the handler returns
SignerRejects ==
    \E i \in 1..Len(connects) :
        /\ connects' = RemoveAt(connects, i)
        /\ hist' = ConnectFailed("getSigner")
        /\ UNCHANGED <<fromToken, toToken, amount, isRoute, data1, signer,
                       address, provider, searchTerm, ethereum, libVars, fetches, aggs>>

\* the signer is stored as soon as provider.getSigner() resolved, ahead of
\* the address read
AddressSettlesSignerFirst ==
    \E i \in 1..Len(connects), ok \in BOOLEAN :
        LET c == connects[i]
            started == StartFetch(c.from.address, "from", c.from)
                          \o StartFetch(c.to.address, "to", c.to)
        IN  /\ connects' = RemoveAt(connects, i)
            /\ IF ok
               THEN /\ signer' = "signer"
                    /\ address' = UserAddress
                    /\ provider' = "provider"
                    /\ fetches' = fetches \o started
               ELSE /\ signer' = "signer"
                    /\ UNCHANGED <<address, provider, fetches>>
            /\ hist' = IF ok
                       THEN [op |-> "connected", from |-> c.from, to |-> c.to]
                       ELSE ConnectFailed("getAddress")
            /\ UNCHANGED <<fromToken, toToken, amount, isRoute, data1,
                           searchTerm, ethereum, libVars, aggs>>

\* provider.getSigner() resolved and signer.getAddress() settles; on success
\* the session is stored and the two balance fetches are started
AddressSettles ==
    \E i \in 1..Len(connects), ok \in BOOLEAN :
        LET c == connects[i]
            started == StartFetch(c.from.address, "from", c.from)
                          \o StartFetch(c.to.address, "to", c.to)
        IN  /\ connects' = RemoveAt(connects, i)
            /\ IF ok
               THEN /\ signer' = "signer"
                    /\ address' = UserAddress
                    /\ provider' = "provider"
                    /\ fetches' = fetches \o started
               ELSE UNCHANGED <<signer, address, provider, fetches>>
            /\ hist' = IF ok
                       THEN [op |-> "connected", from |-> c.from, to |-> c.to]
                       ELSE ConnectFailed("getAddress")
            /\ UNCHANGED <<fromToken, toToken, amount, isRoute, data1,
                           searchTerm, ethereum, libVars, aggs>>

-----------------------------------------------------------------------------
(* Balance fetches *)

\* every address is read through the token contract
ReadsIssuedNoSentinel(tokenAddress) ==
    IF ValidAddress(tokenAddress) THEN Erc20Reads ELSE {}

\* the reads getTokenBalance issues once it has the account: the native
\* balance for the sentinel address, else the three contract reads together,
\* none when ethers.getAddress throws
ReadsIssued(tokenAddress) ==
    IF tokenAddress = NativeAddress THEN {"getBalance"}
    ELSE IF ValidAddress(tokenAddress) THEN Erc20Reads
    ELSE {}

\* no raw balance was read
NoRaw == -1

\* what hist records of a getTokenBalance call that has returned
Returned(f, i, stage, ok, reads) ==
    [op |-> "getTokenBalance", role |-> f.role,
     native |-> f.tokenAddress = NativeAddress, stage |-> stage, ok |-> ok,
     raw |-> IF ok THEN Holdings[f.tokenAddress] ELSE NoRaw,
     reads |-> reads, from |-> fromToken, to |-> toToken,
     others |-> RemoveAt(fetches, i)]

\* provider.send("eth_requestAccounts") rejects or resolves with no account,
\* or the token address is refused: the call returns with no read issued
AccountsSettle ==
    \E i \in 1..Len(fetches), answer \in {"rejected", "empty", "account"} :
        LET f == fetches[i]
        IN  /\ answer = "account" => ReadsIssued(f.tokenAddress) = {}
            /\ fetches' = RemoveAt(fetches, i)
            /\ hist' = Returned(f, i, "accounts", FALSE, {})
            /\ UNCHANGED <<fromToken, toToken, amount, isRoute, data1, signer,
                           address, provider, searchTerm, ethereum, libVars, connects,
                           aggs>>

\* a raw balance of zero yields no balance
ReadBalanceZeroAsNone(f) ==
    IF Holdings[f.tokenAddress] = 0 THEN Undefined
    ELSE IF f.tokenAddress = NativeAddress
    THEN formatEther(Holdings[f.tokenAddress])
    ELSE formatUnits(Holdings[f.tokenAddress], ContractDecimals[f.tokenAddress])

\* the balance a settled read yields: formatEther of the native balance, or
\* formatUnits of balanceOf by the contract's decimals
ReadBalance(f) ==
    IF f.tokenAddress = NativeAddress
    THEN formatEther(Holdings[f.tokenAddress])
    ELSE formatUnits(Holdings[f.tokenAddress], ContractDecimals[f.tokenAddress])

\* the account request resolved with the account and the reads of the token
\* reject: nothing is stored
ReadsFail ==
    \E i \in 1..Len(fetches) :
        LET f == fetches[i]
            reads == ReadsIssued(f.tokenAddress)
        IN  /\ reads # {}
            /\ fetches' = RemoveAt(fetches, i)
            /\ hist' = Returned(f, i, "read", FALSE, reads)
            /\ UNCHANGED <<fromToken, toToken, amount, isRoute, data1, signer,
                           address, provider, searchTerm, ethereum, libVars, connects,
                           aggs>>

\* the role test is inverted: the updated Token goes to the other role
ReadsResolveWrongRole ==
    \E i \in 1..Len(fetches) :
        LET f == fetches[i]
            reads == ReadsIssued(f.tokenAddress)
        IN  /\ reads # {}
            /\ LET balance == ReadBalance(f)
                   updatedToken == [f.captured EXCEPT !.balance = balance]
               IN  IF f.role = "to"
                   THEN fromToken' = updatedToken /\ UNCHANGED toToken
                   ELSE toToken' = updatedToken /\ UNCHANGED fromToken
            /\ hist' = Returned(f, i, "read", TRUE, reads)
            /\ fetches' = RemoveAt(fetches, i)
            /\ UNCHANGED <<amount, isRoute, data1, signer, address, provider,
                           searchTerm, ethereum, libVars, connects, aggs>>

\* the account request resolved with the account and the reads of the token
\* resolve: the closure's Token of the role, with the balance spread into it,
\* replaces the role's Token
ReadsResolve ==
    \E i \in 1..Len(fetches) :
        LET f == fetches[i]
            reads == ReadsIssued(f.tokenAddress)
        IN  /\ reads # {}
            /\ LET balance == ReadBalance(f)
                   updatedToken == [f.captured EXCEPT !.balance = balance]
               IN  IF f.role = "from"
                   THEN fromToken' = updatedToken /\ UNCHANGED toToken
                   ELSE toToken' = updatedToken /\ UNCHANGED fromToken
            /\ hist' = Returned(f, i, "read", TRUE, reads)
            /\ fetches' = RemoveAt(fetches, i)
            /\ UNCHANGED <<amount, isRoute, data1, signer, address, provider,
                           searchTerm, ethereum, libVars, connects, aggs>>

Next ==
    \/ SelectFrom
    \/ SelectTo
    \/ handleSwap
    \/ handleConnectWallet
    \/ SignerRejects
    \/ AddressSettles
    \/ AccountsSettle
    \/ ReadsFail
    \/ ReadsResolve

Spec == Init /\ [][Next]_vars

-----------------------------------------------------------------------------
(* Aggregation: services/api.js aggregate and handleFinishSwap *)

\* JavaScript values the aggregator call can yield
JUndefined == [t |-> "undefined", keys |-> {}]
JNull == [t |-> "null", keys |-> {}]
JZero == [t |-> "number", keys |-> {}]
JObject(keys) == [t |-> "object", keys |-> keys]

\* response bodies: text that is not JSON, and JSON texts
NotJson == [t |-> "text", keys |-> {}]
Bodies == {NotJson, JNull, JZero, JObject({}), JObject({"0xA"}), JObject({"error"})}
Statuses == {200, 500}

\* ToBoolean of a value of the kinds above (an object is truthy, also {})
Truthy(v) == v.t = "object"

\* await response.json(): the parsed body, or a rejection
IsJson(body) == body # NotJson

\* handleFinishSwap after aggregate() returned `data`: the next data1,
\* storing whatever came back
StoreRouteUnconditional(data) == data

\* handleFinishSwap after aggregate() returned `data`: the next data1
StoreRoute(data) == IF Truthy(data) THEN data ELSE data1

\* handleFinishSwap up to its first await, the in-route flag left alone
handleFinishSwapNoFlag ==
    /\ Len(aggs) < MaxAggs
    /\ UNCHANGED isRoute
    /\ aggs' = [i \in 1..Len(aggs) |-> [aggs[i] EXCEPT !.sole = FALSE]]
                  \o << [stage |-> "fetch",
                         payload |-> [token1Address |-> fromToken.address,
                                      token1Amount |-> "1",
                                      token2Address |-> toToken.address],
                         requests |-> 1, status |-> 0,
                         pre |-> data1, flag |-> isRoute,
                         sole |-> aggs = <<>>, overtaken |-> FALSE] >>
    /\ hist' = [op |-> "executeAggregation", inFlight |-> Len(aggs)]
    /\ UNCHANGED <<fromToken, toToken, amount, data1, signer, address,
                   provider, searchTerm, ethereum, libVars, connects, fetches>>

\* handleFinishSwap up to its first await: the flag is set, aggregate() builds
\* the payload and issues its one fetch
handleFinishSwap ==
    /\ Len(aggs) < MaxAggs
    /\ isRoute' = TRUE
    /\ aggs' = [i \in 1..Len(aggs) |-> [aggs[i] EXCEPT !.sole = FALSE]]
                  \o << [stage |-> "fetch",
                         payload |-> [token1Address |-> fromToken.address,
                                      token1Amount |-> "1",
                                      token2Address |-> toToken.address],
                         requests |-> 1, status |-> 0,
                         pre |-> data1, flag |-> isRoute,
                         sole |-> aggs = <<>>, overtaken |-> FALSE] >>
    /\ hist' = [op |-> "executeAggregation", inFlight |-> Len(aggs)]
    /\ UNCHANGED <<fromToken, toToken, amount, data1, signer, address,
                   provider, searchTerm, ethereum, libVars, connects, fetches>>

\* what hist records of a handleFinishSwap call that has returned
Aggregated(call, outcome, cause, data, cue, escaped) ==
    [op |-> "aggregated", outcome |-> outcome, cause |-> cause,
     cue |-> cue, escaped |-> escaped,
     status |-> call.status, data |-> data, requests |-> call.requests,
     before |-> data1, pre |-> call.pre, flag |-> call.flag,
     sole |-> call.sole, overtaken |-> call.overtaken]

\* the calls left in flight once call i has returned; those started before
\* it are marked as overtaken by it
Overtake(i) ==
    [j \in 1..(Len(aggs) - 1) |->
        IF j < i THEN [aggs[j] EXCEPT !.overtaken = TRUE] ELSE aggs[j + 1]]

\* what the success cue may do: new Audio(roar) ... audio.play() resolves,
\* play() rejects (autoplay refused, file missing), or the constructor or
\* play() throws; "none" when the call has no route and plays no cue
Cues == {"played", "rejected", "threw"}
CuesFor(data) == IF Truthy(data) THEN Cues ELSE {"none"}

\* the cue is awaited ahead of setData: a cue that fails leaves the route
\* unset and, when play() rejects, the error leaves the handler
FinishCueFirst(stored, cue) ==
    [route |-> IF cue \in {"played", "none"} THEN stored ELSE data1,
     escaped |-> cue = "rejected"]

\* the rest of handleFinishSwap once `stored` went to setData: the cue
\* follows setData, a rejection of play() ends in its .catch and a throw in
\* the catch of the handler, so the route stays and no error leaves
Finish(stored, cue) == [route |-> stored, escaped |-> FALSE]

\* handleFinishSwap resumes and stores the data of the call started last only
ResumeLatestOnly(i, cause, data) ==
    \E cue \in CuesFor(data) :
    /\ data1' = IF aggs[i].overtaken THEN data1
                ELSE Finish(StoreRoute(data), cue).route
    /\ aggs' = Overtake(i)
    /\ hist' = Aggregated(aggs[i], IF Truthy(data) THEN "success" ELSE "failure",
                          cause, data, cue, Finish(StoreRoute(data), cue).escaped)
    /\ UNCHANGED <<fromToken, toToken, amount, isRoute, signer, address,
                   provider, searchTerm, ethereum, libVars, connects, fetches>>

\* handleFinishSwap resumes with what aggregate() returned
Resume(i, cause, data) ==
    \E cue \in CuesFor(data) :
    /\ data1' = Finish(StoreRoute(data), cue).route
    /\ aggs' = Overtake(i)
    /\ hist' = Aggregated(aggs[i], IF Truthy(data) THEN "success" ELSE "failure",
                          cause, data, cue, Finish(StoreRoute(data), cue).escaped)
    /\ UNCHANGED <<fromToken, toToken, amount, isRoute, signer, address,
                   provider, searchTerm, ethereum, libVars, connects, fetches>>

\* fetch() rejects and aggregate issues the request once more
FetchRejectsRetries ==
    \E i \in 1..Len(aggs) :
        /\ aggs[i].stage = "fetch"
        /\ IF aggs[i].requests = 1
           THEN /\ aggs' = [aggs EXCEPT ![i].requests = 2]
                /\ hist' = Other
                /\ UNCHANGED <<fromToken, toToken, amount, isRoute, data1,
                               signer, address, provider, searchTerm, ethereum, libVars,
                               connects, fetches>>
           ELSE Resume(i, "network", JUndefined)

\* fetch() rejects (network error): aggregate logs and returns undefined
FetchRejects ==
    \E i \in 1..Len(aggs) :
        /\ aggs[i].stage = "fetch"
        /\ Resume(i, "network", JUndefined)

\* fetch() resolves with a response of any status, as soon as its headers
\* arrived; the body is read next
FetchResolves ==
    \E i \in 1..Len(aggs), status \in Statuses :
        /\ aggs[i].stage = "fetch"
        /\ aggs' = [aggs EXCEPT ![i].stage = "json", ![i].status = status]
        /\ hist' = Other
        /\ UNCHANGED <<fromToken, toToken, amount, isRoute, data1, signer,
                       address, provider, searchTerm, ethereum, libVars, connects,
                       fetches>>

\* response.json() settles once the body arrived: a body that does not
\* parse makes aggregate log and return undefined, any other body is
\* returned as parsed
JsonSettles ==
    \E i \in 1..Len(aggs), body \in Bodies :
        /\ aggs[i].stage = "json"
        /\ IF IsJson(body)
           THEN Resume(i, "none", body)
           ELSE Resume(i, "unparsable", JUndefined)

NextAgg ==
    \/ handleFinishSwap
    \/ FetchRejects
    \/ FetchResolves
    \/ JsonSettles

SpecAgg == Init /\ [][NextAgg]_vars

-----------------------------------------------------------------------------
(* TradingAPI (backend/frontend_integration/trading-sdk.js)                *)
(*                                                                         *)
(* A JavaScript object is a function from its keys to their values; a      *)
(* text that is split or parsed is the sequence of its characters.         *)

EmptyObject == [k \in {} |-> Undefined]

\* {...a, ...b}: the keys of both, b's value where both have the key
Spread(a, b) ==
    [k \in (DOMAIN a) \cup (DOMAIN b) |-> IF k \in DOMAIN b THEN b[k] ELSE a[k]]

\* the requests in flight at a time
MaxRequests == 2

ApiKeys == {"your_api_key", "key-2"}
Endpoints == {"/api/account/info", "/api/orders/buy/market"}

\* the options a caller passes to request(): none, those of the SDK's own
\* methods (a method, a body), and options that bring their own headers
RequestOptions ==
    { EmptyObject,
      ("method" :> "POST") @@ ("body" :> "order"),
      ("method" :> "DELETE"),
      ("headers" :> ("X-Request-Id" :> "1")),
      ("method" :> "POST") @@ ("body" :> "order")
          @@ ("headers" :> ("Content-Type" :> "text/plain")) }

\* the config request() hands to fetch
requestConfig(apiKey, options) ==
    LET optionsHeaders == IF "headers" \in DOMAIN options
                          THEN options["headers"] ELSE EmptyObject
        config ==
            Spread(("method" :> "GET")
                     @@ ("headers" :>
                           Spread(("Content-Type" :> "application/json")
                                    @@ ("X-API-Key" :> apiKey),
                                  optionsHeaders)),
                   options)
    IN  IF "body" \in DOMAIN options
        THEN Spread(config, ("body" :> [json |-> options["body"]]))
        ELSE config

\* request(endpoint, options) up to its first await: fetch(url, config)
request ==
    \E endpoint \in Endpoints, options \in RequestOptions :
        /\ Len(api.inFlight) < MaxRequests
        /\ api' = [api EXCEPT
                     !.inFlight = Append(@, [url |-> api.baseURL \o endpoint,
                                             config |-> requestConfig(api.apiKey,
                                                                      options)]),
                     !.last = [op |-> "request"]]
        /\ UNCHANGED <<appVars, contract, hookVars>>

\* what the server may answer: a status and a body
ApiStatuses == {200, 201, 401, 500}
ApiNotJson == [t |-> "text"]
ApiNull == [t |-> "null"]
ApiData == [t |-> "object", success |-> TRUE]
ApiError(message) == [t |-> "object", error |-> [message |-> message]]
ApiErrorNoMessage == [t |-> "object", error |-> [code |-> "E1"]]
ApiBodies == {ApiNotJson, ApiNull, ApiData, ApiError("Invalid API key"),
              ApiErrorNoMessage}

Resolved(data) == [settled |-> "resolved", data |-> data]
Rejected(name, message) ==
    [settled |-> "rejected", name |-> name, message |-> message]

\* data.error?.message || `HTTP ${response.status}`
ErrorMessage(status, data) ==
    IF "error" \in DOMAIN data /\ "message" \in DOMAIN data.error
          /\ data.error.message # ""
    THEN data.error.message
    ELSE "HTTP " \o ToString(status)

\* request() after fetch resolved with a response: response.json() rejects
\* on a body that is not JSON; on a status outside 2xx the error is built
\* from the parsed body (reading a property of null throws); the catch
\* rethrows whatever was thrown
requestOutcome(status, body) ==
    IF body = ApiNotJson THEN Rejected("SyntaxError", "Unexpected token")
    ELSE IF ~(status \in 200..299)
    THEN IF body = ApiNull
         THEN Rejected("TypeError", "Cannot read properties of null")
         ELSE Rejected("Error", ErrorMessage(status, body))
    ELSE Resolved(body)

\* fetch rejects (network failure): the catch logs and rethrows
requestFails ==
    \E i \in 1..Len(api.inFlight) :
        /\ api' = [api EXCEPT
                     !.inFlight = RemoveAt(@, i),
                     !.last = [op |-> "settled", status |-> 0,
                               body |-> ApiNotJson,
                               outcome |-> Rejected("TypeError",
                                                    "Failed to fetch")]]
        /\ UNCHANGED <<appVars, contract, hookVars>>

\* fetch resolves with a response and the call runs to its end
requestSettles ==
    \E i \in 1..Len(api.inFlight), status \in ApiStatuses, body \in ApiBodies :
        /\ api' = [api EXCEPT
                     !.inFlight = RemoveAt(@, i),
                     !.last = [op |-> "settled", status |-> status,
                               body |-> body,
                               outcome |-> requestOutcome(status, body)]]
        /\ UNCHANGED <<appVars, contract, hookVars>>

\* a JavaScript number with at most three decimals, as its thousandths
Num(thousandths) == [nan |-> FALSE, thousandths |-> thousandths]
NaN == [nan |-> TRUE]

DigitChars == <<"0", "1", "2", "3", "4", "5", "6", "7", "8", "9">>
DigitOf == [c \in {DigitChars[i] : i \in 1..10} |->
               (CHOOSE i \in 1..10 : DigitChars[i] = c) - 1]
IsDigit(c) == c \in DOMAIN DigitOf

\* the characters of a digit sequence
CharsOfDigits(ds) == [i \in 1..Len(ds) |-> DigitChars[ds[i] + 1]]

\* the three fraction digits of a count of thousandths
Thousandths(f) == <<f \div 100, (f \div 10) % 10, f % 10>>

\* `${n}`: the shortest decimal text of the number
NumberToString(n) ==
    LET whole == n.thousandths \div 1000
        frac == n.thousandths % 1000
    IN  IF frac = 0 THEN CharsOfDigits(Digits(whole))
        ELSE CharsOfDigits(Digits(whole)) \o <<".">>
                \o CharsOfDigits(StripTrailingZeros(Thousandths(frac)))

RECURSIVE DigitPrefix(_)
\* the longest prefix of digits
DigitPrefix(cs) ==
    IF cs # <<>> /\ IsDigit(Head(cs)) THEN <<Head(cs)>> \o DigitPrefix(Tail(cs))
    ELSE <<>>

RECURSIVE ValueOfDigits(_)
ValueOfDigits(cs) ==
    IF cs = <<>> THEN 0
    ELSE 10 * ValueOfDigits(SubSeq(cs, 1, Len(cs) - 1)) + DigitOf[cs[Len(cs)]]

\* parseFloat(text): the number the longest numeric prefix denotes (digits,
\* then a point and digits), NaN when the text starts with none
parseFloat(cs) ==
    LET whole == DigitPrefix(cs)
        rest == SubSeq(cs, Len(whole) + 1, Len(cs))
        frac == IF rest # <<>> /\ Head(rest) = "." THEN DigitPrefix(Tail(rest))
                ELSE <<>>
        three == SubSeq(frac \o <<"0", "0", "0">>, 1, 3)
    IN  IF whole = <<>> /\ frac = <<>> THEN NaN
        ELSE Num(1000 * ValueOfDigits(whole) + ValueOfDigits(three))

RECURSIVE split(_, _)
\* text.split(separator), the separator being one character
split(cs, sep) ==
    LET at == {i \in 1..Len(cs) : cs[i] = sep}
    IN  IF at = {} THEN <<cs>>
        ELSE LET i == CHOOSE j \in at : \A k \in at : j <= k
             IN  <<SubSeq(cs, 1, i - 1)>> \o split(SubSeq(cs, i + 1, Len(cs)), sep)

formatTradingEvent(exchange, quantity, price, pair, side) ==
    <<"|">> \o exchange \o <<"|">> \o NumberToString(quantity) \o <<"|">>
        \o NumberToString(price) \o <<"|">> \o pair \o <<"|">> \o side \o <<"|">>

\* parts[k] of the source is parts[k + 1] here
parseTradingEvent(eventData) ==
    LET parts == split(eventData, "|")
    IN  IF Len(parts) # 6
        THEN [threw |-> TRUE, message |-> "Invalid event format"]
        ELSE [threw |-> FALSE,
              exchange |-> parts[2],
              quantity |-> parseFloat(parts[3]),
              price |-> parseFloat(parts[4]),
              pair |-> parts[5],
              side |-> parts[6]]

\* the arguments the calls below are made with
Exchanges == {<<"c", "e", "x">>, <<"d", "e", "x">>}
Quantities == {Num(4200000), Num(1), Num(1500)}
Prices == {Num(500), Num(50000000), Num(0)}
Pairs == {<<"E", "T", "H">>, <<"B", "T", "C">>}
Sides == {<<"b", "u", "y">>, <<"s", "e", "l", "l">>}

\* the event strings of the documentation
DocumentedEvents ==
    { <<"|","c","e","x","|","4","2","0","0","|","0",".","5","|","E","T","H",
        "|","b","u","y","|">>,
      <<"|","d","e","x","|","2","5","0","0","|","1",".","0","|","B","T","C",
        "|","s","e","l","l","|">> }

\* formatTradingEvent(...) and parseTradingEvent of what it returned
formatThenParse ==
    \E exchange \in Exchanges, quantity \in Quantities, price \in Prices,
       pair \in Pairs, side \in Sides :
        LET eventData == formatTradingEvent(exchange, quantity, price, pair, side)
        IN  /\ api' = [api EXCEPT
                         !.last = [op |-> "formatThenParse",
                                   given |-> [exchange |-> exchange,
                                              quantity |-> quantity,
                                              price |-> price, pair |-> pair,
                                              side |-> side],
                                   eventData |-> eventData,
                                   parsed |-> parseTradingEvent(eventData)]]
            /\ UNCHANGED <<appVars, contract, hookVars>>

\* parseTradingEvent of a documented event string
parseDocumented ==
    \E eventData \in DocumentedEvents :
        /\ api' = [api EXCEPT
                     !.last = [op |-> "parseTradingEvent",
                               eventData |-> eventData,
                               parsed |-> parseTradingEvent(eventData)]]
        /\ UNCHANGED <<appVars, contract, hookVars>>

InitSdk ==
    /\ InitApp
    /\ \E apiKey \in ApiKeys : api = TradingAPI(apiKey)
    /\ contract = TradingSignalContract(Deployer)
    /\ InitHooks

\* the HTTP side of the SDK
NextSdk ==
    \/ request
    \/ requestFails
    \/ requestSettles

SpecSdk == InitSdk /\ [][NextSdk]_vars

\* the event-text utilities of the SDK
NextEvents ==
    \/ formatThenParse
    \/ parseDocumented

SpecEvents == InitSdk /\ [][NextEvents]_vars

-----------------------------------------------------------------------------
(* TradingSignalContract (backend/contracts/README.md)                     *)
(*                                                                         *)
(* A transaction either runs to its end or reverts; a reverted one leaves  *)
(* the contract as it was and emits nothing.                               *)

\* the arguments transactions are sent with
TradeAmounts == {0, 1, 5, 10, 1000000, 1000001}
LimitAmounts == {0, 1, 5, 10}
ExTypes == {"dex", "otc"}
SignalSides == {"buy", "hold"}

\* what `last` records of a transaction: the call, whether it reverted and
\* the event it emitted, if any
Reverted(fn, sender, quantity) ==
    [fn |-> fn, sender |-> sender, quantity |-> quantity, reverted |-> TRUE,
     events |-> <<>>]
Done(fn, sender, quantity, events) ==
    [fn |-> fn, sender |-> sender, quantity |-> quantity, reverted |-> FALSE,
     events |-> events]

TradingSignal(exType, quantity, side) ==
    [exType |-> exType, quantity |-> quantity, side |-> side]

onlyOwner(sender) == sender = contract.owner

onlyAuthorized(sender) ==
    sender \in contract.authorizedCallers \/ sender = contract.owner

\* the amount is checked against the lower limit only
validAmountMinOnly(quantity) == quantity >= contract.minTradeAmount

validAmount(quantity) ==
    quantity >= contract.minTradeAmount /\ quantity <= contract.maxTradeAmount

\* a transaction of `sender` that emits `event` when `passes`, else reverts
Transact(fn, sender, quantity, passes, event) ==
    /\ contract' = [contract EXCEPT
                      !.last = IF passes THEN Done(fn, sender, quantity, <<event>>)
                               ELSE Reverted(fn, sender, quantity)]
    /\ UNCHANGED <<appVars, api, hookVars>>

emitCexSignal ==
    \E sender \in Accounts, quantity \in TradeAmounts, side \in SignalSides :
        Transact("emitCexSignal", sender, quantity,
                 onlyAuthorized(sender) /\ validAmount(quantity),
                 TradingSignal("cex", quantity, side))

emitDexSignal ==
    \E sender \in Accounts, quantity \in TradeAmounts, side \in SignalSides :
        Transact("emitDexSignal", sender, quantity,
                 onlyAuthorized(sender) /\ validAmount(quantity),
                 TradingSignal("dex", quantity, side))

emitCustomSignal ==
    \E sender \in Accounts, exType \in ExTypes, quantity \in TradeAmounts,
       side \in SignalSides :
        Transact("emitCustomSignal", sender, quantity,
                 /\ onlyAuthorized(sender) /\ validAmount(quantity)
                 /\ exType \in {"cex", "dex"}
                 /\ side \in {"buy", "sell"},
                 TradingSignal(exType, quantity, side))

\* an admin transaction: `next` is the contract after it when `passes`
Admin(fn, sender, passes, next) ==
    /\ contract' = IF passes
                   THEN [next EXCEPT !.last = Done(fn, sender, 0, <<>>)]
                   ELSE [contract EXCEPT !.last = Reverted(fn, sender, 0)]
    /\ UNCHANGED <<appVars, api, hookVars>>

addAuthorizedCaller ==
    \E sender \in Accounts, caller \in Accounts :
        Admin("addAuthorizedCaller", sender, onlyOwner(sender),
              [contract EXCEPT !.authorizedCallers = @ \cup {caller}])

removeAuthorizedCaller ==
    \E sender \in Accounts, caller \in Accounts :
        Admin("removeAuthorizedCaller", sender, onlyOwner(sender),
              [contract EXCEPT !.authorizedCallers = @ \ {caller}])

\* what a call of updateTradingLimits leaves in contract.last: the outcome,
\* the arguments and the limits before the call
LimitsCall(sender, min, max, passes) ==
    [fn |-> "updateTradingLimits", sender |-> sender, quantity |-> 0,
     reverted |-> ~passes, events |-> <<>>,
     args |-> [min |-> min, max |-> max],
     before |-> [min |-> contract.minTradeAmount,
                 max |-> contract.maxTradeAmount]]

\* updateTradingLimits without its require: any pair the owner sends is set
updateTradingLimitsUnchecked ==
    \E sender \in Accounts, min \in LimitAmounts, max \in LimitAmounts :
        LET passes == onlyOwner(sender)
        IN /\ contract' = IF passes
                          THEN [contract EXCEPT
                                  !.minTradeAmount = min,
                                  !.maxTradeAmount = max,
                                  !.last = LimitsCall(sender, min, max, passes)]
                          ELSE [contract EXCEPT
                                  !.last = LimitsCall(sender, min, max, passes)]
           /\ UNCHANGED <<appVars, api, hookVars>>

updateTradingLimits ==
    \E sender \in Accounts, min \in LimitAmounts, max \in LimitAmounts :
        LET passes == onlyOwner(sender) /\ min < max
        IN /\ contract' = IF passes
                          THEN [contract EXCEPT
                                  !.minTradeAmount = min,
                                  !.maxTradeAmount = max,
                                  !.last = LimitsCall(sender, min, max, passes)]
                          ELSE [contract EXCEPT
                                  !.last = LimitsCall(sender, min, max, passes)]
           /\ UNCHANGED <<appVars, api, hookVars>>

transferOwnership ==
    \E sender \in Accounts, newOwner \in Accounts \cup {ZeroAddress} :
        Admin("transferOwnership", sender,
              onlyOwner(sender) /\ newOwner # ZeroAddress,
              [contract EXCEPT !.owner = newOwner])

NextContract ==
    \/ emitCexSignal
    \/ emitDexSignal
    \/ emitCustomSignal
    \/ addAuthorizedCaller
    \/ removeAuthorizedCaller
    \/ updateTradingLimits
    \/ transferOwnership

SpecContract == Init /\ [][NextContract]_vars

-----------------------------------------------------------------------------
(* The WebSocket side of TradingAPI (trading-sdk.js:166-251)               *)

\* sockets one TradingAPI instance, and WebSocket hooks one useWebSocket,
\* may create
MaxSockets == 3
MaxApis == 3

\* new WebSocket(wsUrl): the socket starts connecting; owner is the
\* TradingAPI instance that created it and whose handlers it carries
\* (0: the instance `api`, k: the k-th instance of the hook)
WebSocket(owner) == [readyState |-> "CONNECTING", owner |-> owner]

\* WebSocket.close(): starts the closing handshake; the close event, and
\* with it onclose, comes later
close(socket) ==
    IF socket.readyState \in {"CLOSING", "CLOSED"} THEN socket
    ELSE [socket EXCEPT !.readyState = "CLOSING"]

\* the sockets that may still fire their close event
Live(k) == sockets[k].readyState # "CLOSED"

\* t.connectWebSocket(): the instance and the sockets after the call
connectWebSocketOf(t, owner) ==
    IF t.wsConnection # Null
    THEN [api |-> t, sockets |-> sockets, created |-> FALSE]
    ELSE [api |-> [t EXCEPT !.wsConnection = Len(sockets) + 1],
          sockets |-> Append(sockets, WebSocket(owner)),
          created |-> TRUE]

\* t.disconnectWebSocket()
disconnectWebSocketOf(t) ==
    IF t.wsConnection # Null
    THEN [api |-> [t EXCEPT !.wsConnection = Null],
          sockets |-> [sockets EXCEPT ![t.wsConnection] = close(@)]]
    ELSE [api |-> t, sockets |-> sockets]

\* the onclose handler installed on a socket of t, after its emit
oncloseOf(t) == [t EXCEPT !.wsConnection = Null]

\* emit(event): whether callbacks are registered on t for the event
emit(t, event) == event \in t.wsCallbacks

\* readyState of the socket created last, before this step
LatestState ==
    IF sockets = <<>> THEN "none" ELSE sockets[Len(sockets)].readyState

connectWebSocket ==
    /\ api.wsConnection # Null \/ Len(sockets) < MaxSockets
    /\ LET r == connectWebSocketOf(api, 0)
       IN /\ api' = [r.api EXCEPT !.last = [op |-> "connectWebSocket",
                                            created |-> r.created,
                                            latest |-> LatestState]]
          /\ sockets' = r.sockets
    /\ UNCHANGED <<appVars, contract, wsHook, trading, viewport>>

disconnectWebSocket ==
    /\ LET r == disconnectWebSocketOf(api)
       IN /\ api' = [r.api EXCEPT !.last = [op |-> "disconnectWebSocket",
                                            closing |-> api.wsConnection]]
          /\ sockets' = r.sockets
    /\ UNCHANGED <<appVars, contract, wsHook, trading, viewport>>

\* the open event of a socket of `api`: emit('connected')
onopen ==
    \E k \in DOMAIN sockets :
        /\ sockets[k].owner = 0
        /\ sockets[k].readyState = "CONNECTING"
        /\ sockets' = [sockets EXCEPT ![k].readyState = "OPEN"]
        /\ api' = [api EXCEPT !.last = [op |-> "onopen", socket |-> k]]
        /\ UNCHANGED <<appVars, contract, wsHook, trading, viewport>>

\* the close event of a socket of `api` (the connection failed, the server
\* closed it, or close() completed): emit('disconnected'), wsConnection = null
onclose ==
    \E k \in DOMAIN sockets :
        /\ sockets[k].owner = 0
        /\ Live(k)
        /\ sockets' = [sockets EXCEPT ![k].readyState = "CLOSED"]
        /\ api' = [oncloseOf(api) EXCEPT !.last = [op |-> "onclose",
                                                   socket |-> k]]
        /\ UNCHANGED <<appVars, contract, wsHook, trading, viewport>>

NextWs ==
    \/ connectWebSocket
    \/ disconnectWebSocket
    \/ onopen
    \/ onclose

SpecWs == Init /\ [][NextWs]_vars

-----------------------------------------------------------------------------
(* useWebSocket (useTradingAPI.js:234-291)                                 *)

HookKeys == ApiKeys \cup {""}

\* the four api.on(...) of connect
HookEvents == {"connected", "disconnected", "error", "message"}

connect ==
    /\ IF wsHook.apiKey = "" \/ wsHook.apiRef # Null
       THEN /\ wsHook' = [wsHook EXCEPT !.last = [op |-> "connect",
                                                  created |-> FALSE]]
            /\ UNCHANGED sockets
       ELSE /\ Len(wsHook.apis) < MaxApis
            /\ LET owner == Len(wsHook.apis) + 1
                   t == [TradingAPI(wsHook.apiKey)
                           EXCEPT !.wsCallbacks = HookEvents]
                   r == connectWebSocketOf(t, owner)
               IN /\ wsHook' = [wsHook EXCEPT
                                  !.apis = Append(@, r.api),
                                  !.apiRef = owner,
                                  !.last = [op |-> "connect",
                                            created |-> TRUE]]
                  /\ sockets' = r.sockets
    /\ UNCHANGED <<appVars, api, contract, trading, viewport>>

\* also the cleanup of the hook's effect
disconnect ==
    /\ IF wsHook.apiRef # Null
       THEN LET r == disconnectWebSocketOf(wsHook.apis[wsHook.apiRef])
            IN /\ wsHook' = [wsHook EXCEPT
                               !.apis[wsHook.apiRef] = r.api,
                               !.apiRef = Null,
                               !.connected = FALSE,
                               !.last = [op |-> "disconnect",
                                         current |-> wsHook.apiRef]]
               /\ sockets' = r.sockets
       ELSE /\ wsHook' = [wsHook EXCEPT !.last = [op |-> "disconnect",
                                                  current |-> Null]]
            /\ UNCHANGED sockets
    /\ UNCHANGED <<appVars, api, contract, trading, viewport>>

\* what the step leaves in wsHook.last
SocketEvent(op, k) ==
    [op |-> op, socket |-> k, owner |-> sockets[k].owner,
     current |-> wsHook.apiRef, before |-> wsHook.connected]

\* a socket of the hook opens: onopen emits 'connected' on its instance
onConnected ==
    \E k \in DOMAIN sockets :
        /\ sockets[k].owner # 0
        /\ sockets[k].readyState = "CONNECTING"
        /\ sockets' = [sockets EXCEPT ![k].readyState = "OPEN"]
        /\ wsHook' = IF emit(wsHook.apis[sockets[k].owner], "connected")
                     THEN [wsHook EXCEPT !.connected = TRUE,
                                         !.error = "null",
                                         !.last = SocketEvent("connected", k)]
                     ELSE [wsHook EXCEPT !.last = SocketEvent("connected", k)]
        /\ UNCHANGED <<appVars, api, contract, trading, viewport>>

\* a socket of the hook closes: onclose emits 'disconnected' on its instance
\* and clears the instance's wsConnection
onDisconnected ==
    \E k \in DOMAIN sockets :
        /\ sockets[k].owner # 0
        /\ Live(k)
        /\ sockets' = [sockets EXCEPT ![k].readyState = "CLOSED"]
        /\ LET owner == sockets[k].owner
               t == wsHook.apis[owner]
           IN wsHook' = [wsHook EXCEPT
                           !.apis[owner] = oncloseOf(t),
                           !.connected = IF emit(t, "disconnected")
                                         THEN FALSE ELSE @,
                           !.last = SocketEvent("disconnected", k)]
        /\ UNCHANGED <<appVars, api, contract, trading, viewport>>

\* a socket of the hook reports an error: onerror emits 'error'
onError ==
    \E k \in DOMAIN sockets :
        /\ sockets[k].owner # 0
        /\ Live(k)
        /\ wsHook' = [wsHook EXCEPT
                        !.error = IF emit(wsHook.apis[sockets[k].owner],
                                          "error")
                                  THEN "error event" ELSE @,
                        !.last = SocketEvent("error", k)]
        /\ UNCHANGED <<appVars, api, contract, sockets, trading, viewport>>

InitHook ==
    /\ InitApp
    /\ api = TradingAPI("your_api_key")
    /\ contract = TradingSignalContract(Deployer)
    /\ sockets = <<>>
    /\ \E apiKey \in HookKeys : wsHook = useWebSocket(apiKey)
    /\ trading = useTrading("your_api_key")
    /\ viewport = useViewport(Window(MaxWidth))

NextHook ==
    \/ connect
    \/ disconnect
    \/ onConnected
    \/ onDisconnected
    \/ onError

SpecHook == InitHook /\ [][NextHook]_vars

-----------------------------------------------------------------------------
(* useTrading (useTradingAPI.js:113-178)                                   *)

\* operations of one hook awaiting their response at the same time
MaxPending == 2

\* how api.placeBuyOrder / placeSellOrder / cancelOrder settle: request()
\* returns the body, rejects on a status outside 2xx, or fetch rejects
TradingOutcomes ==
    { requestOutcome(200, ApiData),
      requestOutcome(401, ApiError("Invalid API key")),
      Rejected("TypeError", "Failed to fetch") }

\* the body shared by the three operations up to their await
Operation(op) ==
    /\ IF trading.apiKey = ""
       THEN trading' = [trading EXCEPT !.last = [op |-> op, started |-> FALSE]]
       ELSE /\ Len(trading.pending) < MaxPending
            /\ trading' = [trading EXCEPT
                             !.loading = TRUE,
                             !.error = "null",
                             !.pending = Append(@, op),
                             !.last = [op |-> op, started |-> TRUE]]
    /\ UNCHANGED <<appVars, api, contract, sockets, wsHook, viewport>>

placeBuyOrder == Operation("placeBuyOrder")
placeSellOrder == Operation("placeSellOrder")
cancelOrder == Operation("cancelOrder")

\* the await of an operation settles: return result.data, or catch
\* (setError, rethrow); finally setLoading(false)
OperationSettles ==
    \E i \in 1..Len(trading.pending), outcome \in TradingOutcomes :
        /\ trading' = [trading EXCEPT
                         !.pending = RemoveAt(@, i),
                         !.error = IF outcome.settled = "rejected"
                                   THEN outcome.message ELSE @,
                         !.loading = FALSE,
                         !.last = [op |-> "settled",
                                   of |-> trading.pending[i],
                                   settled |-> outcome.settled]]
        /\ UNCHANGED <<appVars, api, contract, sockets, wsHook, viewport>>

InitTrading ==
    /\ InitApp
    /\ api = TradingAPI("your_api_key")
    /\ contract = TradingSignalContract(Deployer)
    /\ sockets = <<>>
    /\ wsHook = useWebSocket("your_api_key")
    /\ \E apiKey \in HookKeys : trading = useTrading(apiKey)
    /\ viewport = useViewport(Window(MaxWidth))

NextTrading ==
    \/ placeBuyOrder
    \/ placeSellOrder
    \/ cancelOrder
    \/ OperationSettles

SpecTrading == InitTrading /\ [][NextTrading]_vars

-----------------------------------------------------------------------------
(* useViewport (useViewport.jsx:9-40)                                      *)

\* the resize listener: setViewport(getViewport())
determineViewport ==
    /\ viewport.window.defined
    /\ \E innerWidth \in Widths :
           viewport' = useViewport(Window(innerWidth))
    /\ UNCHANGED <<appVars, api, contract, sockets, wsHook, trading>>

InitViewport ==
    /\ InitApp
    /\ api = TradingAPI("your_api_key")
    /\ contract = TradingSignalContract(Deployer)
    /\ sockets = <<>>
    /\ wsHook = useWebSocket("your_api_key")
    /\ trading = useTrading("your_api_key")
    /\ \E window \in {NoWindow} \cup {Window(w) : w \in Widths} :
           viewport = useViewport(window)

NextViewport == determineViewport

SpecViewport == InitViewport /\ [][NextViewport]_vars

-----------------------------------------------------------------------------
(* C1: for every search term, filterTokens returns exactly the registry    *)
(* tokens whose name contains the term case-insensitively, in registry     *)
(* order; the empty term gives the whole list and "us" gives [USDC, USDT]. *)

\* the name has the term at some offset, comparing characters without case
ContainsIgnoringCase(name, term) ==
    \E k \in 0..(Len(name) - Len(term)) :
        \A i \in 1..Len(term) :
            toLowerCaseChar(name[k + i]) = toLowerCaseChar(term[i])

RegistryIndex(t) == CHOOSE i \in 1..Len(tokens) : tokens[i] = t

NamesOf(seq) == [i \in 1..Len(seq) |-> seq[i].name]

C1_FilterTokens ==
    LET r == filteredTokens IN
    /\ \A i \in 1..Len(r) : \E j \in 1..Len(tokens) : r[i] = tokens[j]
    /\ \A i, j \in 1..Len(r) :
          i < j => RegistryIndex(r[i]) < RegistryIndex(r[j])
    /\ \A j \in 1..Len(tokens) :
          (\E i \in 1..Len(r) : r[i] = tokens[j])
              <=> ContainsIgnoringCase(Chars[tokens[j].name], searchTerm)
    /\ searchTerm = <<>> => r = tokens
    /\ searchTerm = <<"u", "s">> => NamesOf(r) = <<"USDC", "USDT">>

C1_Witness ==
    /\ hist.op = "setSearchTerm"
    /\ searchTerm = <<"u", "S">>
    /\ NamesOf(filteredTokens) = <<"USDC", "USDT">>

-----------------------------------------------------------------------------
(* C4: the presets are mutually exclusive and re-selection is idempotent:  *)
(* after P then Q exactly Q is active, after P twice exactly P, and at     *)
(* most one preset is active in any state.                                 *)

C4_PresetExclusive ==
    /\ \A i, j \in 1..Len(PresetButtons) : Active(i) /\ Active(j) => i = j
    /\ hist.op = "setAmount" =>
          \A i \in 1..Len(PresetButtons) :
              Active(i) <=> i = hist.run[Len(hist.run)]

C4_Witness ==
    /\ hist.op = "setAmount"
    /\ hist.run = <<2, 4>>
    /\ Active(4) /\ ~Active(2)

-----------------------------------------------------------------------------
(* C2: invertDirection makes the new source the old destination Token and  *)
(* the new destination the old source Token in one step, each with the     *)
(* balance it had; from source=ETH, destination=USDT it gives source=USDT, *)
(* destination=ETH.                                                        *)

C2_InvertDirection ==
    hist.op = "handleSwap" /\ hist.n = 1 =>
        /\ fromToken = hist.to
        /\ toToken = hist.from
        /\ hist.from.name = "ETH" /\ hist.to.name = "USDT" =>
              fromToken.name = "USDT" /\ toToken.name = "ETH"

C2_Witness ==
    /\ hist.op = "handleSwap" /\ hist.n = 1
    /\ hist.from.name = "ETH" /\ hist.from.balance # Undefined
    /\ hist.to.name = "USDT" /\ hist.to.balance # Undefined
    /\ hist.from.balance # hist.to.balance
    /\ fromToken.name = "USDT" /\ toToken.name = "ETH"

-----------------------------------------------------------------------------
(* C3: invertDirection is its own inverse: two calls in a row restore the  *)
(* source and destination bindings, fetched balances included.             *)

C3_InvertTwice ==
    hist.op = "handleSwap" /\ hist.n = 2 =>
        fromToken = hist.from /\ toToken = hist.to

C3_Witness ==
    /\ hist.op = "handleSwap" /\ hist.n = 2
    /\ fromToken.balance # Undefined
    /\ toToken.balance = Undefined
    /\ fromToken.name # toToken.name

-----------------------------------------------------------------------------
(* C5 as stated: getBalance for the native sentinel never issues a         *)
(* balanceOf call, and for any other token address it always issues        *)
(* exactly the three reads balanceOf, decimals, symbol.                    *)

C5_AlwaysThreeReads ==
    hist.op = "getTokenBalance" =>
        IF hist.native THEN "balanceOf" \notin hist.reads
        ELSE hist.reads = Erc20Reads

(* C5 amended: the native sentinel never gets a balanceOf call; any other  *)
(* token address gets the three reads together, all of them once the       *)
(* account request has returned an account and none when the call returns  *)
(* before that.                                                            *)

ReadsOf(native, stage, reads) ==
    IF native THEN "balanceOf" \notin reads
    ELSE IF stage = "accounts" THEN reads = {}
    ELSE reads = Erc20Reads

C5_ReadsIssued ==
    hist.op = "getTokenBalance" =>
        /\ ReadsOf(hist.native, hist.stage, hist.reads)
        /\ hist.ok => hist.stage = "read"

C5_Witness ==
    /\ hist.op = "getTokenBalance"
    /\ ~hist.native /\ hist.ok
    /\ hist.reads = Erc20Reads

-----------------------------------------------------------------------------
(* C9: without a wallet extension connectWallet shows the notice and       *)
(* returns before any asynchronous call: the Wallet Session stays unset,   *)
(* no account request is sent and no balance fetch is started.             *)

C9_NoWallet ==
    ~ethereum =>
        /\ signer = Undefined /\ address = Undefined /\ provider = Undefined
        /\ connects = <<>>
        /\ fetches = <<>>
        /\ hist.op = "connectWallet" => hist.alert

C9_Witness ==
    /\ ~ethereum
    /\ hist.op = "connectWallet" /\ hist.alert
    /\ signer = Undefined /\ fetches = <<>>

-----------------------------------------------------------------------------
(* C10: a successful connectWallet starts a balance fetch for the source   *)
(* and for the destination Token; each settles whatever the state of the   *)
(* other: a read that succeeds gives its role's Token a balance, a read    *)
(* that fails changes neither Token and leaves the other fetch in flight.  *)

RoleToken(r) == IF r = "from" THEN fromToken ELSE toToken

Pending(r, token) ==
    \E i \in 1..Len(fetches) :
        /\ fetches[i].role = r
        /\ fetches[i].tokenAddress = token.address
        /\ fetches[i].captured = token

C10_IndependentFetches ==
    /\ hist.op = "connected" =>
          Pending("from", hist.from) /\ Pending("to", hist.to)
    /\ hist.op = "getTokenBalance" =>
          /\ fetches = hist.others
          /\ hist.ok =>
                /\ RoleToken(hist.role).balance # Undefined
                /\ hist.role = "from" => toToken = hist.to
                /\ hist.role = "to" => fromToken = hist.from
          /\ ~hist.ok => fromToken = hist.from /\ toToken = hist.to

C10_Witness ==
    /\ hist.op = "getTokenBalance"
    /\ hist.role = "to" /\ ~hist.ok
    /\ fetches = <<>>
    /\ fromToken.balance # Undefined
    /\ toToken.balance = Undefined

-----------------------------------------------------------------------------
(* C6: a failed aggregate() call (network error or unparsable response)    *)
(* leaves the stored route as it was before executeAggregation was         *)
(* invoked, and the call issued its one request only (no retry).           *)

C6_FailureKeepsRoute ==
    hist.op = "aggregated" /\ hist.cause \in {"network", "unparsable"} =>
        /\ hist.outcome = "failure"
        /\ data1 = hist.before
        /\ hist.sole => data1 = hist.pre
        /\ hist.requests = 1

C6_Witness ==
    /\ hist.op = "aggregated" /\ hist.cause = "unparsable"
    /\ hist.sole
    /\ data1 = JObject({"0xA"})

-----------------------------------------------------------------------------
(* C7: a non-2xx answer (HTTP 500) surfaces as an error, never as a        *)
(* success, and the stored route keeps its pre-call value, whatever the    *)
(* response body contains.                                                 *)

C7_Non2xxIsError ==
    hist.op = "aggregated" /\ hist.cause # "network"
            /\ ~(hist.status \in 200..299) =>
        /\ hist.outcome = "failure"
        /\ data1 = hist.before

-----------------------------------------------------------------------------
(* C8: after a successful aggregation that returned an empty mapping the   *)
(* stored route state (data1 with isRoute) differs from the one in which   *)
(* no aggregation has been attempted.                                      *)

RouteState == [route |-> data1, inRoute |-> isRoute]

NotAttempted == [route |-> JObject({}), inRoute |-> FALSE]

C8_EmptyRouteDistinct ==
    hist.op = "aggregated" /\ hist.outcome = "success"
            /\ hist.data = JObject({}) =>
        RouteState # NotAttempted

C8_Witness ==
    /\ hist.op = "aggregated" /\ hist.outcome = "success"
    /\ hist.data = JObject({})
    /\ data1 = NotAttempted.route
    /\ isRoute

-----------------------------------------------------------------------------
(* C11: the Wallet Session is created atomically: signer, provider and     *)
(* address are all unset or all set in every reachable state, and a        *)
(* connectWallet that fails (no wallet, signer request rejected, address   *)
(* read rejected) sets none of them.                                       *)

NoSession == <<Undefined, Undefined, Undefined>>

C11_SessionAtomic ==
    /\ \/ <<signer, address, provider>> = NoSession
       \/ signer # Undefined /\ address # Undefined /\ provider # Undefined
    /\ hist.op = "connectWallet" /\ hist.alert =>
          <<signer, address, provider>> = NoSession
    /\ hist.op = "connectFailed" =>
          <<signer, address, provider>> = hist.session

C11_Witness ==
    /\ hist.op = "connectFailed" /\ hist.step = "getAddress"
    /\ hist.session = NoSession
    /\ <<signer, address, provider>> = NoSession

-----------------------------------------------------------------------------
(* C12: executeAggregation invoked while an earlier call is in flight      *)
(* starts a request of its own next to the earlier one, and every          *)
(* response that carries a route replaces the stored route when it is      *)
(* processed, also the response of a call that a later call has            *)
(* overtaken: the route stored at the end is the one processed last.       *)

C12_LastProcessedWins ==
    /\ hist.op = "executeAggregation" =>
          /\ Len(aggs) = hist.inFlight + 1
          /\ \A i \in 1..Len(aggs) : aggs[i].requests = 1
    /\ hist.op = "aggregated" /\ hist.outcome = "success" =>
          data1 = hist.data

C12_Witness ==
    /\ hist.op = "aggregated" /\ hist.outcome = "success"
    /\ hist.overtaken
    /\ aggs = <<>>
    /\ hist.before = JObject({"0xA"})
    /\ hist.data = JObject({"error"})
    /\ data1 = hist.data

-----------------------------------------------------------------------------
(* C13: a balance read that succeeds with a zero balance stores the        *)
(* formatted zero on the role's Token as its balance, and the role shows   *)
(* it; a balance read that fails (no account, contract read failure,       *)
(* refused address) stores nothing and leaves both Tokens as they were.    *)

C13_ZeroIsNotFailure ==
    hist.op = "getTokenBalance" =>
        /\ hist.ok /\ hist.raw = 0 =>
              /\ RoleToken(hist.role).balance = "0.0"
              /\ BalanceText(RoleToken(hist.role)) = "0.0"
        /\ ~hist.ok =>
              /\ hist.raw = NoRaw
              /\ fromToken = hist.from /\ toToken = hist.to

C13_Witness ==
    /\ hist.op = "getTokenBalance" /\ hist.ok /\ hist.raw = 0
    /\ hist.role = "to"
    /\ toToken.name = "USDC" /\ toToken.balance = "0.0"
    /\ BalanceText(fromToken) = "--"

-----------------------------------------------------------------------------
(* C14: each aggregate() call issues exactly one network request, whether  *)
(* the request succeeds or fails: a call in flight has issued one request  *)
(* and a call that has returned, with whatever outcome, issued one.        *)

C14_OneRequestPerCall ==
    /\ \A i \in 1..Len(aggs) : aggs[i].requests = 1
    /\ hist.op = "aggregated" => hist.requests = 1

C14_Witness ==
    /\ hist.op = "aggregated" /\ hist.cause = "network"
    /\ hist.outcome = "failure" /\ hist.requests = 1
    /\ Len(aggs) = 1 /\ aggs[1].requests = 1

-----------------------------------------------------------------------------
(* C15: parseTradingEvent inverts formatTradingEvent: for every exchange,  *)
(* quantity, price, pair and side without a "|", parsing the formatted     *)
(* event returns those five fields, and the documented event string        *)
(* "|cex|4200|0.5|ETH|buy|" parses without error.                          *)

C15_ParseInvertsFormat ==
    /\ api.last.op = "formatThenParse" =>
          /\ ~api.last.parsed.threw
          /\ api.last.parsed = [threw |-> FALSE,
                                exchange |-> api.last.given.exchange,
                                quantity |-> api.last.given.quantity,
                                price |-> api.last.given.price,
                                pair |-> api.last.given.pair,
                                side |-> api.last.given.side]
    /\ api.last.op = "parseTradingEvent" => ~api.last.parsed.threw

-----------------------------------------------------------------------------
(* C16: every HTTP request issued through TradingAPI.request carries the   *)
(* header X-API-Key equal to the instance's apiKey, for every endpoint and *)
(* every options argument, also options that supply their own headers.     *)

C16_ApiKeyOnEveryRequest ==
    \A i \in 1..Len(api.inFlight) :
        LET headers == api.inFlight[i].config["headers"]
        IN  /\ "X-API-Key" \in DOMAIN headers
            /\ headers["X-API-Key"] = api.apiKey

-----------------------------------------------------------------------------
(* C17: TradingAPI.request resolves with the parsed body only when the     *)
(* response status is 2xx; for any non-2xx response it rejects with an     *)
(* Error whose message is the server's error.message when present and      *)
(* otherwise "HTTP <status>", and it never resolves with the error body.   *)

ServerMessage(body) ==
    IF body.t = "object" /\ "error" \in DOMAIN body
          /\ "message" \in DOMAIN body.error
    THEN body.error.message
    ELSE Undefined

C17_Non2xxRejects ==
    api.last.op = "settled" /\ api.last.status # 0 =>
        LET status == api.last.status
            outcome == api.last.outcome
        IN  /\ outcome.settled = "resolved" =>
                  status \in 200..299 /\ outcome.data = api.last.body
            /\ ~(status \in 200..299) =>
                  /\ outcome.settled = "rejected"
                  /\ outcome.name = "Error"
                  /\ outcome.message =
                        IF ServerMessage(api.last.body) # Undefined
                        THEN ServerMessage(api.last.body)
                        ELSE "HTTP " \o ToString(status)

-----------------------------------------------------------------------------
(* C18: emitCexSignal, emitDexSignal and emitCustomSignal emit a           *)
(* TradingSignal event only when the caller is the current owner or on     *)
(* the allowlist and minTradeAmount <= quantity <= maxTradeAmount at the   *)
(* time of the call; otherwise the call reverts and emits no event,        *)
(* whatever admin calls came before.                                       *)

EmitFunctions == {"emitCexSignal", "emitDexSignal", "emitCustomSignal"}

MayEmit(sender, quantity) ==
    /\ sender = contract.owner \/ sender \in contract.authorizedCallers
    /\ contract.minTradeAmount <= quantity
    /\ quantity <= contract.maxTradeAmount

C18_SignalsGuarded ==
    contract.last.fn \in EmitFunctions =>
        LET tx == contract.last
        IN  /\ tx.events # <<>> =>
                  /\ ~tx.reverted
                  /\ MayEmit(tx.sender, tx.quantity)
                  /\ tx.events[1].quantity = tx.quantity
            /\ ~MayEmit(tx.sender, tx.quantity) =>
                  tx.reverted /\ tx.events = <<>>

C18_Witness ==
    /\ contract.last.fn = "emitDexSignal"
    /\ contract.owner # Deployer
    /\ contract.last.sender = Deployer
    /\ Deployer \notin contract.authorizedCallers
    /\ contract.maxTradeAmount = 10
    /\ contract.last.quantity = 5
    /\ contract.last.reverted

-----------------------------------------------------------------------------
(* C19: executeAggregation sets the in-route flag before the aggregator    *)
(* request is issued: in every state in which an aggregation request is    *)
(* in flight the in-route flag is true.                                    *)

C19_InRouteWhileInFlight ==
    /\ aggs # <<>> => isRoute
    /\ hist.op = "executeAggregation" => isRoute

C19_Witness ==
    /\ hist.op = "executeAggregation" /\ hist.inFlight = 0
    /\ Len(aggs) = 1 /\ aggs[1].stage = "fetch"
    /\ ~aggs[1].flag
    /\ isRoute

-----------------------------------------------------------------------------
(* C20: a failed executeAggregation is a no-op transition back to Idle:    *)
(* once the call has returned, the stored route and the in-route flag      *)
(* both have the values they had before the call.                          *)

C20_FailureIsNoOp ==
    hist.op = "aggregated" /\ hist.outcome = "failure" /\ hist.sole =>
        /\ data1 = hist.pre
        /\ isRoute = hist.flag

-----------------------------------------------------------------------------
(* C21: each of the two balance fetches started by connectWallet writes    *)
(* only to its own role: when the source fetch completes the destination   *)
(* Token is as it was, and when the destination fetch completes the source *)
(* Token is as it was, in either order of completion.                      *)

C21_OwnRoleOnly ==
    hist.op = "getTokenBalance" =>
        /\ hist.role = "from" => toToken = hist.to
        /\ hist.role = "to" => fromToken = hist.from

C21_Witness ==
    /\ hist.op = "getTokenBalance" /\ hist.ok /\ hist.role = "from"
    /\ fetches = <<>>
    /\ hist.to.balance # Undefined
    /\ toToken = hist.to
    /\ fromToken.balance # Undefined /\ hist.from.balance = Undefined

-----------------------------------------------------------------------------
(* C22: a balance read has no side effect beyond the read: it modifies     *)
(* neither the source Token nor the destination Token (nor any other       *)
(* controller state); it only returns the formatted balance and symbol     *)
(* for the caller to merge.                                                *)

C22_ReadHasNoSideEffect ==
    hist.op = "getTokenBalance" =>
        /\ fromToken = hist.from
        /\ toToken = hist.to

-----------------------------------------------------------------------------
(* C23: selectToken(role, token) binds the chosen list token to the role   *)
(* and leaves the other role's Token, the amount preset, the stored route, *)
(* the in-route flag and the Wallet Session as they were; it is accepted   *)
(* also when the chosen token is the other role's token.                   *)

C23_SelectTokenFrame ==
    hist.op = "selectToken" =>
        LET other == IF hist.role = "from" THEN "to" ELSE "from"
        IN  /\ RoleToken(hist.role).name = hist.token.name
            /\ RoleToken(hist.role).address = hist.token.address
            /\ <<RoleToken(other), amount, data1, isRoute, signer, address,
                 provider>> = hist.frame

C23_Witness ==
    /\ hist.op = "selectToken" /\ hist.role = "from"
    /\ hist.token.name = "USDT"
    /\ fromToken.name = "USDT" /\ toToken.name = "USDT"
    /\ toToken.balance # Undefined
    /\ signer # Undefined

-----------------------------------------------------------------------------
(* C25: completion of a balance fetch changes only the balance of the      *)
(* Token currently bound to its role: the token (name, address) bound to   *)
(* the source and to the destination role is the same before and after,    *)
(* also when selectToken or invertDirection ran between connectWallet and  *)
(* the completion.                                                         *)

SameBinding(a, b) == a.name = b.name /\ a.address = b.address

C25_CompletionKeepsBinding ==
    hist.op = "getTokenBalance" =>
        /\ SameBinding(fromToken, hist.from)
        /\ SameBinding(toToken, hist.to)

-----------------------------------------------------------------------------
(* C24: when an aggregation succeeds and its success cue (the audio        *)
(* playback) fails, executeAggregation still completes without error and   *)
(* the returned route mapping is stored.                                   *)

C24_CueFailureKeepsRoute ==
    hist.op = "aggregated" /\ hist.outcome = "success"
            /\ hist.cue \in {"rejected", "threw"} =>
        /\ ~hist.escaped
        /\ data1 = hist.data

C24_Witness ==
    /\ hist.op = "aggregated" /\ hist.outcome = "success"
    /\ hist.cue = "rejected"
    /\ hist.before = JObject({})
    /\ data1 = JObject({"0xA"})
    /\ ~hist.escaped

-----------------------------------------------------------------------------
(* C26: on one TradingAPI instance, wsConnection refers to the socket      *)
(* created last for as long as that socket is connecting or open, and      *)
(* connectWebSocket never creates a socket while the one created last is   *)
(* still connecting or open.                                               *)

C26_WsConnectionIsLatest ==
    /\ sockets # <<>> /\ sockets[Len(sockets)].readyState \in {"CONNECTING", "OPEN"}
           => api.wsConnection = Len(sockets)
    /\ api.last.op = "connectWebSocket" /\ api.last.created
           => api.last.latest \notin {"CONNECTING", "OPEN"}

-----------------------------------------------------------------------------
(* C27: in useWebSocket, while the socket of the current API instance is   *)
(* open, connected is true; a 'disconnected' event of an instance the hook *)
(* has already disconnected does not set connected to false.               *)

C27_ConnectedWhileOpen ==
    /\ wsHook.apiRef # Null
         /\ wsHook.apis[wsHook.apiRef].wsConnection # Null
         /\ sockets[wsHook.apis[wsHook.apiRef].wsConnection].readyState = "OPEN"
           => wsHook.connected
    /\ wsHook.last.op = "disconnected"
         /\ wsHook.last.owner # wsHook.last.current
         /\ wsHook.last.before
           => wsHook.connected

-----------------------------------------------------------------------------
(* C28: in useTrading, loading is true whenever at least one of            *)
(* placeBuyOrder, placeSellOrder, cancelOrder awaits its response, also    *)
(* when two overlap, and false once all of them have settled.              *)

C28_LoadingWhilePending ==
    /\ trading.pending # <<>> => trading.loading
    /\ trading.pending = <<>> => ~trading.loading

-----------------------------------------------------------------------------
(* C29: for every window width, getViewport is 'mobile' below 768,         *)
(* 'tablet' from 768 up to but excluding 1250, 'desktop' from 1250 upward. *)

C29_ViewportOfWidth ==
    viewport.window.defined =>
        viewport.viewport =
            IF viewport.window.innerWidth < 768 THEN "mobile"
            ELSE IF viewport.window.innerWidth < 1250 THEN "tablet"
            ELSE "desktop"

-----------------------------------------------------------------------------
(* C30: in TradingSignalContract minTradeAmount < maxTradeAmount holds in  *)
(* every reachable state; a call of updateTradingLimits whose arguments    *)
(* would break it, or whose sender is not the owner, reverts and leaves    *)
(* both limits as they were.                                               *)

C30_LimitsOrdered ==
    /\ contract.minTradeAmount < contract.maxTradeAmount
    /\ contract.last.fn = "updateTradingLimits"
         /\ (contract.last.sender # contract.owner
               \/ ~(contract.last.args.min < contract.last.args.max))
           => /\ contract.last.reverted
              /\ contract.minTradeAmount = contract.last.before.min
              /\ contract.maxTradeAmount = contract.last.before.max

\* after the owner moved the limits to (5, 10), a call with min = max
\* reverted and the limits are still (5, 10)
C30_Witness ==
    /\ contract.last.fn = "updateTradingLimits"
    /\ contract.last.sender = contract.owner
    /\ contract.last.args = [min |-> 10, max |-> 10]
    /\ contract.last.reverted
    /\ contract.minTradeAmount = 5
    /\ contract.maxTradeAmount = 10

====
